---- MODULE Spec2Model ----
(***************************************************************************)
(* Model of src/javascript/src/lib/find_by_semantic_locator.ts: resolution *)
(* of a parsed semantic locator (preOuter / postOuter chains of semantic   *)
(* nodes) against a tree of elements.                                      *)
(*                                                                         *)
(* Elements are numbered 0..n in document order (depth-first pre-order);   *)
(* element 0 is the root the search starts from.                           *)
(***************************************************************************)
EXTENDS Integers, Sequences, FiniteSets, TLC

VARIABLES parent, el, locator, search, elementsCall, elementCall

vars == <<parent, el, locator, search, elementsCall, elementCall>>

\* Elements below the root in the trees of visible lists and list items.
MaxElements == 4
\* Elements below the root in the trees whose elements differ in visibility,
\* attributes or name.
MaxSmallElements == 2

Root == 0

(***************************************************************************)
(* The tree and its collaborators (role, attribute, name, order, outer).   *)
(***************************************************************************)

Nodes == DOMAIN parent

RECURSIVE AncestorsIn(_, _)
AncestorsIn(p, e) == IF e = Root THEN {} ELSE {p[e]} \cup AncestorsIn(p, p[e])

\* Node.contains: a is b or an ancestor of b.
contains(a, b) == a = b \/ a \in AncestorsIn(parent, b)

StrictlyContains(a, b) == a # b /\ contains(a, b)

\* Elements in document order.
DocumentOrder == [i \in 1..Cardinality(Nodes) |-> i]

compareNodeOrder(a, b) == a - b

isHidden(e) == el[e].hidden

isPresentational(e) == el[e].presentational

computeARIAAttributeValue(e, name) == el[e].attributes[name]

getNameFor(e) == el[e].name

nameMatches(pattern, name) == pattern = name

findByRole(role, base, includeHidden, includePresentational) ==
    SelectSeq(DocumentOrder,
              LAMBDA d : /\ StrictlyContains(base, d)
                         /\ el[d].role = role
                         /\ (includeHidden \/ ~isHidden(d))
                         /\ (includePresentational \/ ~isPresentational(d)))

outerNodesOnly(elements) ==
    SelectSeq(elements,
              LAMBDA e : ~\E j \in 1..Len(elements) : StrictlyContains(elements[j], e))

RECURSIVE removeDuplicates(_)
removeDuplicates(elements) ==
    IF elements = <<>> THEN <<>>
    ELSE LET front == removeDuplicates(SubSeq(elements, 1, Len(elements) - 1))
             last == elements[Len(elements)]
         IN IF \E j \in 1..Len(front) : front[j] = last THEN front
            ELSE Append(front, last)

inDocumentOrder(elements) ==
    \A j \in 1..(Len(elements) - 1) : compareNodeOrder(elements[j], elements[j + 1]) <= 0

\* Array.prototype.sort with compareNodeOrder (insertion into a sorted prefix).
RECURSIVE insertSorted(_, _)
insertSorted(sorted, e) ==
    IF sorted = <<>> THEN <<e>>
    ELSE IF compareNodeOrder(sorted[Len(sorted)], e) <= 0 THEN Append(sorted, e)
    ELSE Append(insertSorted(SubSeq(sorted, 1, Len(sorted) - 1), e), sorted[Len(sorted)])

RECURSIVE sort(_)
sort(elements) ==
    IF elements = <<>> THEN <<>>
    ELSE insertSorted(sort(SubSeq(elements, 1, Len(elements) - 1)), elements[Len(elements)])

(***************************************************************************)
(* Results.                                                                *)
(***************************************************************************)

Undefined == [undefined |-> TRUE]

FoundResult(elements) == [type |-> "Found", found |-> elements]

EmptyResult(closest, elements, failed, partial) ==
    [type |-> "NotFound", closestFind |-> closest, elementsFound |-> elements,
     notFound |-> failed, partialFind |-> partial]

\* assertInDocumentOrder threw.
OrderError == [type |-> "Error", error |-> "elements not in document order"]

isEmptyResultsMetadata(result) == result.type = "NotFound"

isNonEmptyResult(result) == result.type = "Found"

threw(result) == result.type = "Error"

(***************************************************************************)
(* findBySemanticNode: one predicate against a candidate set.              *)
(***************************************************************************)

\* Faulty variant of roleElements: the matches of later bases come first.
RECURSIVE roleElementsReversed(_, _, _, _)
roleElementsReversed(role, searchBase, includeHidden, includePresentational) ==
    IF searchBase = <<>> THEN <<>>
    ELSE roleElementsReversed(role, Tail(searchBase), includeHidden, includePresentational)
         \o findByRole(role, Head(searchBase), includeHidden, includePresentational)

\* searchBase.flatMap(base => findByRole(node.role, base, ...))
RECURSIVE roleElements(_, _, _, _)
roleElements(role, searchBase, includeHidden, includePresentational) ==
    IF searchBase = <<>> THEN <<>>
    ELSE findByRole(role, Head(searchBase), includeHidden, includePresentational)
         \o roleElements(role, Tail(searchBase), includeHidden, includePresentational)

\* Faulty variant of attributeStage: the attribute is recorded as resolved before
\* its filter is known to leave a candidate.
RECURSIVE attributeStageEager(_, _, _, _)
attributeStageEager(node, elements, i, resolvedAttributes) ==
    IF i > Len(node.attributes) THEN FoundResult(elements)
    ELSE LET name == node.attributes[i].name
             value == node.attributes[i].value
             nextElements ==
                 SelectSeq(elements, LAMBDA e : computeARIAAttributeValue(e, name) = value)
             resolved == Append(resolvedAttributes, node.attributes[i])
         IN IF Len(nextElements) = 0
            THEN EmptyResult(<<>>, elements,
                             [attribute |-> [name |-> name, value |-> value]],
                             [role |-> node.role, attributes |-> resolved])
            ELSE attributeStageEager(node, nextElements, i + 1, resolved)

\* The loop over entries(node.attributes), from entry i on, with the
\* attributes resolved by the earlier iterations.
RECURSIVE attributeStage(_, _, _, _)
attributeStage(node, elements, i, resolvedAttributes) ==
    IF i > Len(node.attributes) THEN FoundResult(elements)
    ELSE LET name == node.attributes[i].name
             value == node.attributes[i].value
             nextElements ==
                 SelectSeq(elements, LAMBDA e : computeARIAAttributeValue(e, name) = value)
         IN IF Len(nextElements) = 0
            THEN EmptyResult(<<>>, elements,
                             [attribute |-> [name |-> name, value |-> value]],
                             [role |-> node.role, attributes |-> resolvedAttributes])
            ELSE attributeStage(node, nextElements, i + 1,
                                Append(resolvedAttributes, node.attributes[i]))

\* if (node.name) {...}; the empty string stands for an absent name.
nameStage(node, elements) ==
    IF node.name = "" THEN FoundResult(elements)
    ELSE LET nextElements ==
                 SelectSeq(elements, LAMBDA e : nameMatches(node.name, getNameFor(e)))
         IN IF Len(nextElements) = 0
            THEN EmptyResult(<<>>, elements, [name |-> node.name],
                             [role |-> node.role, attributes |-> node.attributes])
            ELSE FoundResult(nextElements)

\* Faulty variant of roleSearchBase: the candidate set is used as passed in.
roleSearchBaseUnfiltered(searchBase) == searchBase

\* The candidate set the role stage searches below and reports on failure.
roleSearchBase(searchBase) == outerNodesOnly(searchBase)

roleStage(node, searchBase, includeHidden, includePresentational) ==
    LET elements == roleElements(node.role, searchBase, includeHidden, includePresentational)
    IN IF Len(elements) = 0
       THEN EmptyResult(<<>>, searchBase, [role |-> node.role], Undefined)
       ELSE FoundResult(elements)

\* assertInDocumentOrder(elements); return {found: elements}
assertedResult(byName) ==
    IF isEmptyResultsMetadata(byName) THEN byName
    ELSE IF ~inDocumentOrder(byName.found) THEN OrderError
    ELSE FoundResult(byName.found)

\* The name stage and the assertion, given the outcome of the attribute stage.
afterAttributes(node, byAttributes) ==
    IF isEmptyResultsMetadata(byAttributes) THEN byAttributes
    ELSE assertedResult(nameStage(node, byAttributes.found))

\* The attribute and name stages, given the outcome of the role stage.
afterRole(node, byRole) ==
    IF isEmptyResultsMetadata(byRole) THEN byRole
    ELSE afterAttributes(node, attributeStage(node, byRole.found, 1, <<>>))

findBySemanticNode(node, searchBase, includeHidden, includePresentational) ==
    afterRole(node, roleStage(node, roleSearchBase(searchBase),
                              includeHidden, includePresentational))

(***************************************************************************)
(* findBySemanticNodes: a chain of predicates, each fed the matches of the *)
(* one before.                                                             *)
(***************************************************************************)

\* Faulty variant of failedAt: closestFind includes the failing predicate.
failedAtInclusive(nodes, i, result) ==
    EmptyResult(SubSeq(nodes, 1, i), result.elementsFound,
                result.notFound, result.partialFind)

\* The NotFound of the loop when the predicate at index i (1-based) fails.
failedAt(nodes, i, result) ==
    EmptyResult(SubSeq(nodes, 1, i - 1), result.elementsFound,
                result.notFound, result.partialFind)

\* The for loop from index i (1-based) on; nodesStep is the rest of one
\* iteration, given the result of findBySemanticNode for nodes[i].
RECURSIVE findBySemanticNodesFrom(_, _, _, _, _)
RECURSIVE nodesStep(_, _, _, _, _)
nodesStep(nodes, i, result, includeHidden, includePresentational) ==
    IF threw(result) THEN result
    ELSE IF isEmptyResultsMetadata(result) THEN failedAt(nodes, i, result)
    ELSE findBySemanticNodesFrom(nodes, i + 1, result.found,
                                 includeHidden, includePresentational)

findBySemanticNodesFrom(nodes, i, searchBase, includeHidden, includePresentational) ==
    IF i > Len(nodes) THEN FoundResult(searchBase)
    ELSE nodesStep(nodes, i,
                   findBySemanticNode(nodes[i], searchBase,
                                      includeHidden, includePresentational),
                   includeHidden, includePresentational)

findBySemanticNodes(nodes, searchBase, includeHidden, includePresentational) ==
    findBySemanticNodesFrom(nodes, 1, searchBase, includeHidden, includePresentational)

\* The calls of findBySemanticNode that the loop makes from index i on: the
\* predicate, the candidate set passed in and the result, in call order.
RECURSIVE matcherCallsFrom(_, _, _, _, _)
RECURSIVE callsStep(_, _, _, _, _, _)
callsStep(nodes, i, searchBase, result, includeHidden, includePresentational) ==
    <<[node |-> nodes[i], searchBase |-> searchBase, result |-> result]>>
    \o (IF isNonEmptyResult(result)
        THEN matcherCallsFrom(nodes, i + 1, result.found,
                              includeHidden, includePresentational)
        ELSE <<>>)

matcherCallsFrom(nodes, i, searchBase, includeHidden, includePresentational) ==
    IF i > Len(nodes) THEN <<>>
    ELSE callsStep(nodes, i, searchBase,
                   findBySemanticNode(nodes[i], searchBase,
                                      includeHidden, includePresentational),
                   includeHidden, includePresentational)

(***************************************************************************)
(* findBySemanticLocator: preOuter, then postOuter under each base.        *)
(***************************************************************************)

\* Faulty variant of postOuterBases: only the outermost preOuter matches are bases.
postOuterBasesOutermost(searchBase) == outerNodesOnly(searchBase.found)

\* The bases the postOuter segment is searched under: searchBase.found.
postOuterBases(searchBase) == searchBase.found

\* searchBase.found.map(base => findBySemanticNodes(locator.postOuter, [base], ...))
postOuterResults(postOuter, bases, includeHidden, includePresentational) ==
    [b \in 1..Len(bases) |->
        findBySemanticNodes(postOuter, <<bases[b]>>, includeHidden, includePresentational)]

\* Faulty variant of foundUnderBase: the per-base result is not filtered.
foundUnderBaseUnfiltered(result) == result.found

\* What one per-base result contributes to elementsFound.
foundUnderBase(result) == outerNodesOnly(result.found)

\* results.filter(isNonEmptyResult).flatMap(result => outerNodesOnly(result.found))
RECURSIVE collectFound(_)
collectFound(results) ==
    IF results = <<>> THEN <<>>
    ELSE (IF isNonEmptyResult(Head(results)) THEN foundUnderBase(Head(results)) ELSE <<>>)
         \o collectFound(Tail(results))

\* results.reduce(...): the longest closestFind wins, the earlier one on a tie.
RECURSIVE combineMostSpecific(_)
combineMostSpecific(results) ==
    IF Len(results) = 1 THEN results[1]
    ELSE LET a == combineMostSpecific(SubSeq(results, 1, Len(results) - 1))
             b == results[Len(results)]
         IN IF Len(b.closestFind) > Len(a.closestFind) THEN b ELSE a

\* Faulty variant of noneFoundResult: closestFind lacks the preOuter chain.
noneFoundResultUnprefixed(preOuter, results) ==
    LET noneFound == combineMostSpecific(results)
    IN EmptyResult(noneFound.closestFind, noneFound.elementsFound,
                   noneFound.notFound, noneFound.partialFind)

\* The NotFound returned when no base yields an element.
noneFoundResult(preOuter, results) ==
    LET noneFound == combineMostSpecific(results)
    IN EmptyResult(preOuter \o noneFound.closestFind, noneFound.elementsFound,
                   noneFound.notFound, noneFound.partialFind)

\* Faulty variant of mergeFound: the concatenation is not sorted.
mergeFoundUnsorted(elementsFound) == removeDuplicates(elementsFound)

\* removeDuplicates(elementsFound.sort(compareNodeOrder))
mergeFound(elementsFound) == removeDuplicates(sort(elementsFound))

\* The result, given the per-base results and the elements collected from them.
mergedResult(preOuter, results, elementsFound) ==
    IF \E b \in 1..Len(results) : threw(results[b]) THEN OrderError
    ELSE IF Len(elementsFound) = 0 THEN noneFoundResult(preOuter, results)
    ELSE FoundResult(mergeFound(elementsFound))

mergeResults(preOuter, results) ==
    mergedResult(preOuter, results, collectFound(results))

\* The rest of findBySemanticLocator, given the result of the preOuter segment.
afterPreOuter(loc, searchBase, includeHidden, includePresentational) ==
    IF threw(searchBase) \/ isEmptyResultsMetadata(searchBase) THEN searchBase
    ELSE IF Len(loc.postOuter) = 0 THEN searchBase
    ELSE mergeResults(loc.preOuter,
                      postOuterResults(loc.postOuter, postOuterBases(searchBase),
                                       includeHidden, includePresentational))

findBySemanticLocator(loc, root, includeHidden, includePresentational) ==
    afterPreOuter(loc,
                  findBySemanticNodes(loc.preOuter, <<root>>,
                                      includeHidden, includePresentational),
                  includeHidden, includePresentational)

(***************************************************************************)
(* The two entry points.                                                   *)
(***************************************************************************)

Returned(value) == [called |-> TRUE, outcome |-> "returned", value |-> value]

Raised(error) == [called |-> TRUE, outcome |-> "raised", error |-> error]

NotCalled == [called |-> FALSE]

\* Faulty variant of elementsOf: a NotFound yields its candidates.
elementsOfCandidates(result) ==
    IF threw(result) THEN Raised(result)
    ELSE IF isEmptyResultsMetadata(result) THEN Returned(result.elementsFound)
    ELSE Returned(result.found)

\* What findElementsBySemanticLocator makes of the search result.
elementsOf(result) ==
    IF threw(result) THEN Raised(result)
    ELSE IF isEmptyResultsMetadata(result) THEN Returned(<<>>)
    ELSE Returned(result.found)

findElementsBySemanticLocator(loc, root) ==
    elementsOf(findBySemanticLocator(loc, root, FALSE, FALSE))

\* isEmptyResultsMetadata(result) ? [] : result.found
matchesOf(result) == IF isEmptyResultsMetadata(result) THEN <<>> ELSE result.found

\* throw new NoSuchElementError(buildFailureMessage(...))
noSuchElement(result, hiddenResult, presentationalResult) ==
    IF threw(hiddenResult) THEN Raised(hiddenResult)
    ELSE IF threw(presentationalResult) THEN Raised(presentationalResult)
    ELSE Raised([type |-> "NoSuchElementError",
                 result |-> result,
                 hiddenMatches |-> matchesOf(hiddenResult),
                 presentationalMatches |-> matchesOf(presentationalResult)])

\* Faulty variant of firstOf: the last match is returned.
lastOf(result) == Returned(result.found[Len(result.found)])

\* return result.found[0]
firstOf(result) == Returned(result.found[1])

\* What findElementBySemanticLocator makes of the search result.
elementOf(loc, root, result) ==
    IF threw(result) THEN Raised(result)
    ELSE IF isEmptyResultsMetadata(result)
    THEN noSuchElement(result,
                       findBySemanticLocator(loc, root, TRUE, FALSE),
                       findBySemanticLocator(loc, root, FALSE, TRUE))
    ELSE firstOf(result)

findElementBySemanticLocator(loc, root) ==
    elementOf(loc, root, findBySemanticLocator(loc, root, FALSE, FALSE))

(***************************************************************************)
(* What one call of findBySemanticLocator did: its arguments, its result,  *)
(* the result of the preOuter segment, the bases postOuter was searched    *)
(* under with the result for each, and every call of findBySemanticNode.   *)
(***************************************************************************)

RECURSIVE postOuterCalls(_, _, _, _)
postOuterCalls(postOuter, bases, includeHidden, includePresentational) ==
    IF bases = <<>> THEN <<>>
    ELSE matcherCallsFrom(postOuter, 1, <<Head(bases)>>, includeHidden, includePresentational)
         \o postOuterCalls(postOuter, Tail(bases), includeHidden, includePresentational)

\* The log, given the result of the preOuter segment.
searchBaseLog(loc, root, searchBase, includeHidden, includePresentational) ==
    LET fanOut == isNonEmptyResult(searchBase) /\ Len(loc.postOuter) > 0
        bases == IF fanOut THEN postOuterBases(searchBase) ELSE <<>>
    IN [called |-> TRUE,
        includeHidden |-> includeHidden,
        includePresentational |-> includePresentational,
        result |-> findBySemanticLocator(loc, root, includeHidden, includePresentational),
        searchBase |-> searchBase,
        fanOut |-> fanOut,
        bases |-> bases,
        results |-> postOuterResults(loc.postOuter, bases,
                                     includeHidden, includePresentational),
        calls |-> matcherCallsFrom(loc.preOuter, 1, <<root>>,
                                   includeHidden, includePresentational)
                  \o postOuterCalls(loc.postOuter, bases,
                                    includeHidden, includePresentational)]

searchLog(loc, root, includeHidden, includePresentational) ==
    searchBaseLog(loc, root,
                  findBySemanticNodes(loc.preOuter, <<root>>,
                                      includeHidden, includePresentational),
                  includeHidden, includePresentational)

(***************************************************************************)
(* Inputs: trees in document order, element properties, parsed locators.   *)
(***************************************************************************)

\* Parent maps of the trees with elements 1..n below the root, numbered in
\* depth-first pre-order: the parent of i is i - 1 or one of its ancestors.
Trees(n) ==
    {p \in [1..n -> 0..(n - 1)] :
        \A i \in 1..n : /\ p[i] < i
                        /\ i > 1 => (p[i] = i - 1 \/ p[i] \in AncestorsIn(p, i - 1))}

Element(role, checked, selected, name, hidden, presentational) ==
    [role |-> role,
     attributes |-> [a \in {"checked", "selected"} |->
                        IF a = "checked" THEN checked ELSE selected],
     name |-> name, hidden |-> hidden, presentational |-> presentational]

SemanticNode(role, attributes, name) ==
    [role |-> role, attributes |-> attributes, name |-> name]

Chains(nodes, longest) == UNION {[1..k -> nodes] : k \in 0..longest}

\* Role-only predicates.
RoleNodes == {SemanticNode("list", <<>>, ""), SemanticNode("listitem", <<>>, "")}

\* Nested lists and list items, all visible; locators of up to three role-only
\* predicates with and without an outer boundary.
OuterElements ==
    {Element("list", "false", "false", "A", FALSE, FALSE),
     Element("listitem", "true", "false", "A", FALSE, FALSE)}

OuterLocators ==
    {loc \in [preOuter : Chains(RoleNodes, 2), postOuter : Chains(RoleNodes, 2)] :
        Len(loc.preOuter) + Len(loc.postOuter) \in 1..3}

\* Lists and list items that are visible, hidden or presentational; locators
\* of up to two role-only predicates with and without an outer boundary.
VisibilityElements ==
    {Element(role, "false", "false", "A", v = "hidden", v = "presentational") :
        role \in {"list", "listitem"}, v \in {"visible", "hidden", "presentational"}}

VisibilityLocators ==
    {loc \in [preOuter : Chains(RoleNodes, 2), postOuter : Chains(RoleNodes, 1)] :
        Len(loc.preOuter) + Len(loc.postOuter) \in 1..2}

\* List items differing in attributes and name; one predicate with up to two
\* attributes, in either order, and an optional name.
MatcherElements ==
    {Element("listitem", c, s, n, FALSE, FALSE) :
        c \in {"true", "false"}, s \in {"true", "false"}, n \in {"A", "B"}}

Checked == [name |-> "checked", value |-> "true"]

Selected == [name |-> "selected", value |-> "true"]

MatcherNodes ==
    {SemanticNode("listitem", a, n) :
        a \in {<<>>, <<Checked>>, <<Selected>>, <<Checked, Selected>>, <<Selected, Checked>>},
        n \in {"", "A"}}

MatcherLocators == {[preOuter |-> <<node>>, postOuter |-> <<>>] : node \in MatcherNodes}

(***************************************************************************)
(* The state machine: a tree, a parsed locator, and the calls made on it.  *)
(***************************************************************************)

Init ==
    /\ \/ /\ parent \in Trees(MaxElements)
          /\ el \in [1..MaxElements -> OuterElements]
          /\ locator \in OuterLocators
       \/ /\ parent \in Trees(MaxSmallElements)
          /\ el \in [1..MaxSmallElements -> VisibilityElements]
          /\ locator \in VisibilityLocators
       \/ /\ parent \in Trees(MaxSmallElements)
          /\ el \in [1..MaxSmallElements -> MatcherElements]
          /\ locator \in MatcherLocators
    /\ search = NotCalled
    /\ elementsCall = NotCalled
    /\ elementCall = NotCalled

FindBySemanticLocator(includeHidden, includePresentational) ==
    /\ ~search.called /\ ~elementsCall.called /\ ~elementCall.called
    /\ search' = searchLog(locator, Root, includeHidden, includePresentational)
    /\ UNCHANGED <<parent, el, locator, elementsCall, elementCall>>

FindElementsBySemanticLocator ==
    /\ ~search.called /\ ~elementsCall.called
    /\ elementsCall' = findElementsBySemanticLocator(locator, Root)
    /\ UNCHANGED <<parent, el, locator, search, elementCall>>

FindElementBySemanticLocator ==
    /\ ~search.called /\ ~elementCall.called
    /\ elementCall' = findElementBySemanticLocator(locator, Root)
    /\ UNCHANGED <<parent, el, locator, search, elementsCall>>

Next ==
    \/ \E includeHidden \in BOOLEAN, includePresentational \in BOOLEAN :
          FindBySemanticLocator(includeHidden, includePresentational)
    \/ FindElementsBySemanticLocator
    \/ FindElementBySemanticLocator

Spec == Init /\ [][Next]_vars

(***************************************************************************)
(* What a locator means, stated on the tree alone: an element satisfies a  *)
(* chain of predicates when it satisfies the last one and lies strictly    *)
(* below an element that satisfies the chain before it.                    *)
(***************************************************************************)

Satisfies(node, e, includeHidden, includePresentational) ==
    /\ el[e].role = node.role
    /\ includeHidden \/ ~el[e].hidden
    /\ includePresentational \/ ~el[e].presentational
    /\ \A i \in 1..Len(node.attributes) :
          el[e].attributes[node.attributes[i].name] = node.attributes[i].value
    /\ node.name # "" => el[e].name = node.name

RECURSIVE MatchesUnder(_, _, _, _, _)
MatchesUnder(chain, k, base, includeHidden, includePresentational) ==
    IF k = 0 THEN {base}
    ELSE {e \in Nodes :
            /\ Satisfies(chain[k], e, includeHidden, includePresentational)
            /\ \E a \in MatchesUnder(chain, k - 1, base, includeHidden, includePresentational) :
                  StrictlyContains(a, e)}

Chain == locator.preOuter \o locator.postOuter

Matches(includeHidden, includePresentational) ==
    MatchesUnder(Chain, Len(Chain), Root, includeHidden, includePresentational)

Range(seq) == {seq[i] : i \in 1..Len(seq)}

StrictlyAscending(seq) == \A i \in 1..(Len(seq) - 1) : seq[i] < seq[i + 1]

(***************************************************************************)
(* Claims.                                                                 *)
(***************************************************************************)

\* C1: whenever findBySemanticLocator returns a Found result, with or without
\* a postOuter segment and for every includeHidden/includePresentational, its
\* found sequence is non-empty, holds no element twice and is sorted in
\* document order.
C1_FoundNonEmptyUniqueSorted ==
    (search.called /\ isNonEmptyResult(search.result)) =>
        /\ Len(search.result.found) > 0
        /\ \A i, j \in 1..Len(search.result.found) :
              i # j => search.result.found[i] # search.result.found[j]
        /\ \A i, j \in 1..Len(search.result.found) :
              i < j => compareNodeOrder(search.result.found[i], search.result.found[j]) < 0

\* C1 witness: overlapping bases found the same element more than once and
\* out of order, and the result holds several elements.
C1_Witness ==
    /\ search.called /\ search.fanOut /\ isNonEmptyResult(search.result)
    /\ Len(search.result.found) >= 2
    /\ Len(collectFound(search.results)) > Len(search.result.found)
    /\ ~inDocumentOrder(collectFound(search.results))

\* C2: when no element matches the locator with hidden and presentational
\* elements excluded, findElementsBySemanticLocator returns the empty sequence
\* without raising and findElementBySemanticLocator raises NoSuchElementError;
\* when some element matches, the former returns a non-empty sequence and the
\* latter returns without raising.
C2_NotFoundEmptyOrRaise ==
    LET none == Matches(FALSE, FALSE) = {}
    IN /\ elementsCall.called =>
             /\ elementsCall.outcome = "returned"
             /\ (elementsCall.value = <<>>) <=> none
       /\ elementCall.called =>
             IF none
             THEN /\ elementCall.outcome = "raised"
                  /\ elementCall.error.type = "NoSuchElementError"
             ELSE elementCall.outcome = "returned"

\* C2 witness: both entry points were called on a locator that matches only
\* when hidden elements are included.
C2_Witness ==
    /\ elementsCall.called /\ elementCall.called
    /\ elementsCall.value = <<>>
    /\ elementCall.outcome = "raised"
    /\ elementCall.error.hiddenMatches # <<>>
    /\ elementCall.error.presentationalMatches = <<>>
    /\ locator.postOuter # <<>>

\* C3: whenever findElementsBySemanticLocator returns a non-empty sequence,
\* findElementBySemanticLocator returns its first element, and no matching
\* element precedes it in document order; when exactly one element satisfies
\* the whole chain, findElements returns the sequence holding just that element
\* and findElement returns it.
C3_ElementIsFirstOfElements ==
    (elementsCall.called /\ elementCall.called) =>
        LET matches == Matches(FALSE, FALSE)
        IN /\ (elementsCall.outcome = "returned" /\ elementsCall.value # <<>>) =>
                 /\ elementCall.outcome = "returned"
                 /\ elementCall.value = elementsCall.value[1]
                 /\ elementCall.value \in matches
                 /\ \A m \in matches : compareNodeOrder(elementCall.value, m) <= 0
           /\ Cardinality(matches) = 1 =>
                 /\ elementsCall.outcome = "returned"
                 /\ elementCall.outcome = "returned"
                 /\ elementsCall.value = <<elementCall.value>>
                 /\ matches = {elementCall.value}

\* C3 witness: both entry points were called on a locator with an outer
\* boundary that several elements match.
C3_Witness ==
    /\ elementsCall.called /\ elementCall.called
    /\ elementsCall.outcome = "returned"
    /\ Len(elementsCall.value) >= 2
    /\ Cardinality(Matches(FALSE, FALSE)) > Len(elementsCall.value)
    /\ locator.postOuter # <<>>

\* The elements that are outermost among the postOuter matches below base.
OutermostUnder(base, includeHidden, includePresentational) ==
    LET below == MatchesUnder(locator.postOuter, Len(locator.postOuter), base,
                              includeHidden, includePresentational)
    IN {e \in below : ~\E x \in below : StrictlyContains(x, e)}

\* The elements that satisfy the preOuter chain.
PreOuterMatches(includeHidden, includePresentational) ==
    MatchesUnder(locator.preOuter, Len(locator.preOuter), Root,
                 includeHidden, includePresentational)

\* C4 as stated: with a non-empty postOuter, no element of the merged Found
\* result is a strict descendant of another element of it.
C4_MergedResultOutermost ==
    (search.called /\ search.fanOut /\ isNonEmptyResult(search.result)) =>
        \A x, e \in Range(search.result.found) : ~StrictlyContains(x, e)

\* C4 amended: with a non-empty postOuter, the merged Found result is
\* outermost-filtered per base only: it holds exactly the elements that are
\* outermost among the postOuter matches below some preOuter match, so one
\* returned element lies strictly inside another only when no single base has
\* both among its outermost matches.
C4_MergedResultOutermostPerBase ==
    (search.called /\ search.fanOut /\ isNonEmptyResult(search.result)) =>
        /\ Range(search.result.found) =
              UNION {OutermostUnder(b, search.includeHidden, search.includePresentational) :
                        b \in PreOuterMatches(search.includeHidden,
                                              search.includePresentational)}
        /\ \A x, e \in Range(search.result.found) :
              StrictlyContains(x, e) =>
                 \A b \in Range(search.bases) :
                    ~({x, e} \subseteq OutermostUnder(b, search.includeHidden,
                                                      search.includePresentational))

\* C4 witness: nested bases, and a returned element strictly inside another
\* returned element, while some base had a match that its own filter dropped.
C4_Witness ==
    /\ search.called /\ search.fanOut /\ isNonEmptyResult(search.result)
    /\ \E a, b \in Range(search.bases) : StrictlyContains(a, b)
    /\ \E x, e \in Range(search.result.found) : StrictlyContains(x, e)
    /\ \E b \in 1..Len(search.results) :
          /\ isNonEmptyResult(search.results[b])
          /\ Len(outerNodesOnly(search.results[b].found)) < Len(search.results[b].found)

\* The first index of the per-base results with the longest closestFind.
MostSpecificIndex(results) ==
    CHOOSE b \in 1..Len(results) :
        /\ \A c \in 1..Len(results) : Len(results[c].closestFind) <= Len(results[b].closestFind)
        /\ \A c \in 1..(b - 1) : Len(results[c].closestFind) < Len(results[b].closestFind)

\* C5: when preOuter succeeds and no base yields a Found result for postOuter,
\* findBySemanticLocator returns a NotFound whose closestFind is the preOuter
\* chain followed by the longest per-base closestFind (the first such base on
\* a tie) and whose elementsFound, notFound and partialFind are those of that
\* same per-base result.
C5_MostSpecificDiagnostic ==
    (/\ search.called /\ search.fanOut
     /\ \A b \in 1..Len(search.results) : isEmptyResultsMetadata(search.results[b])) =>
        LET selected == search.results[MostSpecificIndex(search.results)]
        IN /\ isEmptyResultsMetadata(search.result)
           /\ search.result.closestFind = locator.preOuter \o selected.closestFind
           /\ search.result.elementsFound = selected.elementsFound
           /\ search.result.notFound = selected.notFound
           /\ search.result.partialFind = selected.partialFind

\* C5 witness: several bases all fail, a later base gets further than the
\* first one, and two bases tie for the longest closestFind.
C5_Witness ==
    /\ search.called /\ search.fanOut
    /\ \A b \in 1..Len(search.results) : isEmptyResultsMetadata(search.results[b])
    /\ MostSpecificIndex(search.results) > 1
    /\ \E c \in 1..Len(search.results) :
          /\ c > MostSpecificIndex(search.results)
          /\ Len(search.results[c].closestFind)
                = Len(search.results[MostSpecificIndex(search.results)].closestFind)
          /\ search.results[c] # search.results[MostSpecificIndex(search.results)]

\* C6: every NotFound result of findBySemanticLocator has a closestFind that
\* is a proper prefix of preOuter followed by postOuter; it is empty exactly
\* when no element satisfies the first predicate of the chain; and notFound
\* reports the role, an attribute or the name of the predicate that follows
\* closestFind in the chain.
C6_ClosestFindProperPrefix ==
    (search.called /\ isEmptyResultsMetadata(search.result)) =>
        LET closest == search.result.closestFind
            failed == Chain[Len(closest) + 1]
            reported == search.result.notFound
        IN /\ Len(closest) <= Len(Chain) - 1
           /\ closest = SubSeq(Chain, 1, Len(closest))
           /\ (closest = <<>>) <=>
                 MatchesUnder(Chain, 1, Root, search.includeHidden,
                              search.includePresentational) = {}
           /\ DOMAIN reported \in {{"role"}, {"attribute"}, {"name"}}
           /\ "role" \in DOMAIN reported => reported.role = failed.role
           /\ "attribute" \in DOMAIN reported =>
                 \E i \in 1..Len(failed.attributes) : failed.attributes[i] = reported.attribute
           /\ "name" \in DOMAIN reported => (failed.name # "" /\ reported.name = failed.name)

\* C6 witness: the search fails inside postOuter after its first predicate,
\* below a non-empty preOuter.
C6_Witness ==
    /\ search.called /\ isEmptyResultsMetadata(search.result)
    /\ locator.preOuter # <<>>
    /\ Len(search.result.closestFind) > Len(locator.preOuter)

\* C7 as stated: a preOuter match strictly contained in another preOuter match
\* is never a search base for postOuter and contributes no element to the
\* final result: every returned element is outermost among the postOuter
\* matches below an outermost preOuter match.
C7_OnlyOutermostBasesSearched ==
    (search.called /\ search.fanOut) =>
        LET matches == PreOuterMatches(search.includeHidden, search.includePresentational)
            outermost == {b \in matches : ~\E a \in matches : StrictlyContains(a, b)}
        IN /\ Range(search.bases) \subseteq outermost
           /\ isNonEmptyResult(search.result) =>
                 Range(search.result.found) \subseteq
                    UNION {OutermostUnder(b, search.includeHidden,
                                          search.includePresentational) : b \in outermost}

\* C7 amended: the postOuter segment is searched under every preOuter match,
\* once each and in document order, including a match strictly contained in
\* another one, and the elements that are outermost among the postOuter
\* matches below such a nested base are part of the final result.
C7_EveryPreOuterMatchSearched ==
    (search.called /\ search.fanOut) =>
        /\ Range(search.bases) = PreOuterMatches(search.includeHidden,
                                                 search.includePresentational)
        /\ StrictlyAscending(search.bases)
        /\ Len(search.results) = Len(search.bases)
        /\ \A b \in Range(search.bases) :
              (isNonEmptyResult(search.result) =>
                  OutermostUnder(b, search.includeHidden, search.includePresentational)
                      \subseteq Range(search.result.found))

\* C7 witness: a base nested in another base contributes an element that is
\* not outermost below the enclosing base.
C7_Witness ==
    /\ search.called /\ search.fanOut /\ isNonEmptyResult(search.result)
    /\ \E a, b \in Range(search.bases) :
          /\ StrictlyContains(a, b)
          /\ \E e \in OutermostUnder(b, search.includeHidden, search.includePresentational) :
                /\ e \in Range(search.result.found)
                /\ e \notin OutermostUnder(a, search.includeHidden,
                                           search.includePresentational)

\* The elements of a sequence that are not strictly inside another element
\* of it, in the order of the sequence.
OutermostOf(seq) ==
    SelectSeq(seq, LAMBDA e : \A x \in Range(seq) : ~StrictlyContains(x, e))

\* The calls of findBySemanticNode that failed at the role stage.
RoleFailures ==
    {c \in Range(search.calls) :
        isEmptyResultsMetadata(c.result) /\ "role" \in DOMAIN c.result.notFound}

\* C8 as stated: a role-stage failure reports the candidate set that was
\* passed in to findBySemanticNode as elementsFound.
C8_RoleFailureReportsPassedCandidates ==
    search.called =>
        \A c \in RoleFailures :
            /\ c.result.notFound = [role |-> c.node.role]
            /\ c.result.partialFind = Undefined
            /\ c.result.elementsFound = c.searchBase

\* C8 amended: a role-stage failure has notFound = {role: node.role}, no
\* partialFind, and elementsFound equal to the outermost elements of the
\* candidate set that was passed in (those not strictly inside another
\* candidate), in the order they were passed.
C8_RoleFailureReportsOutermostCandidates ==
    search.called =>
        \A c \in RoleFailures :
            /\ c.result.notFound = [role |-> c.node.role]
            /\ c.result.partialFind = Undefined
            /\ c.result.closestFind = <<>>
            /\ c.result.elementsFound = OutermostOf(c.searchBase)
            /\ \A base \in Range(c.searchBase) :
                  MatchesUnder(<<SemanticNode(c.node.role, <<>>, "")>>, 1, base,
                               search.includeHidden, search.includePresentational) = {}

\* C8 witness: the role stage fails on a candidate set whose elements are
\* nested in one another.
C8_Witness ==
    /\ search.called
    /\ \E c \in RoleFailures :
          /\ Len(c.searchBase) >= 2
          /\ Len(c.result.elementsFound) < Len(c.searchBase)
          /\ Len(c.result.elementsFound) >= 2

\* The calls of findBySemanticNode that failed at the attribute stage.
AttributeFailures ==
    {c \in Range(search.calls) :
        isEmptyResultsMetadata(c.result) /\ "attribute" \in DOMAIN c.result.notFound}

\* The elements of the predicate's role below the candidates of a call.
RoleCandidates(c) ==
    {e \in Nodes :
        /\ Satisfies(SemanticNode(c.node.role, <<>>, ""), e,
                     search.includeHidden, search.includePresentational)
        /\ \E base \in Range(c.searchBase) : StrictlyContains(base, e)}

\* Those of them that have the first k declared attributes.
Survivors(c, k) ==
    {e \in RoleCandidates(c) :
        \A j \in 1..k : el[e].attributes[c.node.attributes[j].name]
                            = c.node.attributes[j].value}

\* C9: when role matches exist and a declared attribute eliminates all
\* candidates, findBySemanticNode returns a NotFound whose notFound.attribute
\* is the first attribute in iteration order whose filter left no candidate,
\* whose partialFind holds the role and exactly the attributes before that
\* one, and whose elementsFound are the candidates that have those earlier
\* attributes, in document order.
C9_AttributeFailureDiagnostic ==
    search.called =>
        \A c \in Range(search.calls) :
            LET attributes == c.node.attributes
                failing == {k \in 1..Len(attributes) : Survivors(c, k) = {}}
            IN /\ (RoleCandidates(c) # {} /\ failing # {}) <=> c \in AttributeFailures
               /\ c \in AttributeFailures =>
                     LET first == CHOOSE k \in failing : \A j \in failing : k <= j
                     IN /\ c.result.notFound = [attribute |-> attributes[first]]
                        /\ c.result.partialFind =
                              [role |-> c.node.role,
                               attributes |-> SubSeq(attributes, 1, first - 1)]
                        /\ Range(c.result.elementsFound) = Survivors(c, first - 1)
                        /\ StrictlyAscending(c.result.elementsFound)
                        /\ c.result.closestFind = <<>>

\* C9 witness: the second of two declared attributes eliminates all
\* candidates after the first one eliminated some.
C9_Witness ==
    /\ search.called
    /\ \E c \in AttributeFailures :
          /\ Len(c.node.attributes) = 2
          /\ c.result.notFound.attribute = c.node.attributes[2]
          /\ Len(c.result.partialFind.attributes) = 1
          /\ Cardinality(RoleCandidates(c)) > Len(c.result.elementsFound)

\* C10: the document-order assertion at the end of findBySemanticNode never
\* fails on a call reachable from findBySemanticLocator or from the entry
\* points: every candidate set handed to findBySemanticNode is in document
\* order, its outermost elements have pairwise disjoint subtrees, and the
\* matches it returns are in document order without repetition.
C10_DocumentOrderAssertionHolds ==
    /\ search.called =>
          /\ ~threw(search.result)
          /\ ~threw(search.searchBase)
          /\ \A b \in 1..Len(search.results) : ~threw(search.results[b])
          /\ \A c \in Range(search.calls) :
                /\ ~threw(c.result)
                /\ inDocumentOrder(c.searchBase)
                /\ StrictlyAscending(c.searchBase)
                /\ \A i, j \in 1..Len(OutermostOf(c.searchBase)) :
                      i # j => ~contains(OutermostOf(c.searchBase)[i],
                                         OutermostOf(c.searchBase)[j])
                /\ isNonEmptyResult(c.result) => StrictlyAscending(c.result.found)
    /\ elementsCall.called => elementsCall.outcome = "returned"
    /\ elementCall.called =>
          (elementCall.outcome = "raised" => elementCall.error.type = "NoSuchElementError")

\* C10 witness: a candidate set with an element nested in another one, where
\* a match below the nested candidate precedes a match that is only below the
\* enclosing one.
C10_Witness ==
    /\ search.called
    /\ \E c \in Range(search.calls) :
          /\ isNonEmptyResult(c.result)
          /\ \E a, b \in Range(c.searchBase) :
                /\ StrictlyContains(a, b)
                /\ \E x, y \in Range(c.result.found) :
                      /\ contains(b, x) /\ ~contains(b, y) /\ contains(a, y)
                      /\ compareNodeOrder(x, y) < 0

====
